---- MODULE Spec2Model ----
(***************************************************************************)
(* hexago: the template resolution engine (internal/generator/             *)
(* template_loader.go), the `templates` commands built on it               *)
(* (cmd/templates.go) and the file-system helpers it uses (pkg/fileutil).  *)
(*                                                                         *)
(* A template name is a sequence of path segments, <<"service",            *)
(* "service.go.tmpl">> for service/service.go.tmpl.  Template content is a *)
(* sequence of tokens: a text literal, a field reference (".Name") or an   *)
(* unterminated directive ("{{").  The three file-system sources are       *)
(* assumed to be three distinct directories.                               *)
(*                                                                         *)
(* The architecture validator (Validator, checkImports) and the            *)
(* configuration it reads (ProjectConfig) follow.  A directory or file     *)
(* path is a sequence of path segments.  An import path is a sequence of   *)
(* pieces of its text, the separator "/" being a piece of its own, so that *)
(* strings.HasPrefix and strings.Contains are prefix and infix tests on    *)
(* the sequence: acme.io/shop-tools is <<"acme.io", "/", "shop",           *)
(* "-tools">>, of which the text acme.io/shop is a prefix.                 *)
(***************************************************************************)
EXTENDS Integers, Sequences, FiniteSets, TLC

VARIABLES
    fs,       \* fs[src][name]: what is at <src.Path>/<name>: NoEntry, DirEntry or a file's content
    dirs,     \* dirs[src]: the parent directories that exist under <src.Path>
    cache,    \* l.cache of the long-lived TemplateLoader l: name -> parsed template or NoTemplate
    last,     \* the last call and what it returned
    first,    \* first[name]: the first Render(name, ...) of l, its data context and what it
              \* returned; kept under SpecStale only
    edits,    \* number of changes made to the override directories from outside the program
    proj,     \* the project under the working directory: its directories and source files
    config,   \* v.config of the Validator, NoConfig while there is none
    pc,       \* where `hexago validate` stands: "idle", the check to run next, "done" when
              \* Validate has returned, "exited" when runValidate has returned
    result,   \* the ValidationResult of the run: Successes, Warnings, Errors
    ran,      \* the checks the run has carried out, in the order they ran
    changes,  \* number of changes made to the project tree from outside the program
    err,      \* the error runValidate returned, NoError for nil
    prev      \* the result of the run of Validate before this one by the same Validator;
              \* kept under SpecRepeat only

\* the loader's variables and the validator's
lvars == <<fs, dirs, cache, last, first, edits>>
vvars == <<proj, config, pc, result, ran, changes, err, prev>>

vars == <<fs, dirs, cache, last, first, edits, proj, config, pc, result, ran, changes,
          err, prev>>

-----------------------------------------------------------------------------
(* Bounds *)

\* changes made from outside the program (an editor, mkdir, rm) in one behaviour
MaxEdits == 2

\* changes made to the project tree from outside the program in one behaviour
MaxChanges == 2

-----------------------------------------------------------------------------
(* Names, contents and data contexts *)

svcName == <<"service", "service.go.tmpl">>
entName == <<"domain", "entity.go.tmpl">>
\* a name the embedded bundle does not define
customName == <<"service", "custom.go.tmpl">>

\* the names whose override paths are followed; entName stays embedded only
Names == {svcName, customName}

\* the data contexts callers pass to Render: the fields they have, with their values
userData == [f \in {".Name"} |-> "User"]
orderData == [f \in {".Name", ".Desc"} |-> IF f = ".Name" THEN "Order" ELSE "an order"]
DataContexts == {userData, orderData}

Fields == {".Name", ".Desc"}
Unterminated == "{{"

\* what an editor may put into an override file
EditContents ==
    { <<"// custom ", ".Desc">>,
      <<"// broken ", Unterminated>> }

\* what can be at a path of an override directory
NoEntry == [kind |-> "none", content |-> <<>>]
DirEntry == [kind |-> "dir", content |-> <<>>]
File(content) == [kind |-> "file", content |-> content]

\* a cache slot: empty, or a parsed template
NoTemplate == [parsed |-> FALSE, tree |-> <<>>]
Template(tree) == [parsed |-> TRUE, tree |-> tree]

NoData == <<>>
NoName == <<>>
NoRender == [data |-> NoData, kind |-> "none", bytes |-> <<>>]
NoSource == "nosource"

-----------------------------------------------------------------------------
(* The embedded bundle: //go:embed templates/**/*.tmpl *)

embeddedTemplates ==
    { [path |-> <<"templates">>, isDir |-> TRUE, content |-> <<>>],
      [path |-> <<"templates", "service">>, isDir |-> TRUE, content |-> <<>>],
      [path |-> <<"templates", "domain">>, isDir |-> TRUE, content |-> <<>>],
      [path |-> <<"templates", "service", "service.go.tmpl">>, isDir |-> FALSE,
       content |-> <<"package ", ".Name">>],
      [path |-> <<"templates", "domain", "entity.go.tmpl">>, isDir |-> FALSE,
       content |-> <<"type ", ".Name">>] }

\* embed.FS.ReadFile: the content of a regular file of the bundle, an error otherwise
EmbeddedReadFile(path) ==
    IF \E e \in embeddedTemplates : e.path = path /\ ~e.isDir
    THEN [err |-> FALSE,
          content |-> (CHOOSE e \in embeddedTemplates : e.path = path /\ ~e.isDir).content]
    ELSE [err |-> TRUE, content |-> <<>>]

-----------------------------------------------------------------------------
(* The source chain *)

\* loader.sources, in the order NewTemplateLoader builds it (Priority 1..4)
sources == <<"binary-local", "project-local", "user-global", "embedded">>

FsSources == {"binary-local", "project-local", "user-global"}

Priority(s) == CHOOSE i \in 1..Len(sources) : sources[i] = s

\* filepath.Dir of a template name
Dir(name) == SubSeq(name, 1, Len(name) - 1)

\* fileutil.FileExists: os.Stat succeeds, for a file and for a directory alike
FileExists(f, s, name) == f[s][name] # NoEntry

\* os.ReadFile: fails on a directory and on a missing file
ReadFile(f, s, name) ==
    IF f[s][name].kind = "file"
    THEN [err |-> FALSE, content |-> f[s][name].content]
    ELSE [err |-> TRUE, content |-> <<>>]

\* TemplateSource.exists, as Load, Exists, Which and loadRawTemplate call it
SourceExists(f, s, name) ==
    IF s = "embedded"
    THEN ~EmbeddedReadFile(<<"templates">> \o name).err
    ELSE FileExists(f, s, name)

\* TemplateSource.read
SourceRead(f, s, name) ==
    IF s = "embedded"
    THEN EmbeddedReadFile(<<"templates">> \o name)
    ELSE ReadFile(f, s, name)

-----------------------------------------------------------------------------
(* text/template, as far as the loader depends on it *)

\* template.New(name).Funcs(funcMap).Parse(content)
Parse(content) ==
    IF \E i \in 1..Len(content) : content[i] = Unterminated
    THEN [err |-> TRUE, tree |-> <<>>]
    ELSE [err |-> FALSE, tree |-> content]

\* tmpl.Execute(&buf, data): a field the data context lacks is an execution error
Execute(tree, data) ==
    IF \E i \in 1..Len(tree) : tree[i] \in Fields /\ tree[i] \notin DOMAIN data
    THEN [err |-> TRUE, bytes |-> <<>>]
    ELSE [err |-> FALSE,
          bytes |-> [i \in 1..Len(tree) |->
                        IF tree[i] \in Fields THEN data[tree[i]] ELSE tree[i]]]

-----------------------------------------------------------------------------
(* TemplateLoader *)

\* parseTemplate that stores what it was given in the cache even when Parse fails
parseTemplateStoring(name, content, source) ==
    LET p == Parse(content) IN
    IF p.err
    THEN [kind |-> "syntax", tmpl |-> Template(content), src |-> source, store |-> TRUE]
    ELSE [kind |-> "ok", tmpl |-> Template(p.tree), src |-> source, store |-> TRUE]

\* parseTemplate: the parsed template is stored in the cache only when Parse succeeds
parseTemplate(name, content, source) ==
    LET p == Parse(content) IN
    IF p.err
    THEN [kind |-> "syntax", tmpl |-> NoTemplate, src |-> source, store |-> FALSE]
    ELSE [kind |-> "ok", tmpl |-> Template(p.tree), src |-> source, store |-> TRUE]

\* Load with the sources tried from the lowest priority up
RECURSIVE LoadFromReversed(_, _, _)
LoadFromReversed(f, name, i) ==
    LET j == Len(sources) + 1 - i IN
    IF i > Len(sources)
    THEN [kind |-> "notfound", tmpl |-> NoTemplate, src |-> NoSource, store |-> FALSE]
    ELSE IF SourceExists(f, sources[j], name) /\ ~SourceRead(f, sources[j], name).err
         THEN parseTemplate(name, SourceRead(f, sources[j], name).content, sources[j])
         ELSE LoadFromReversed(f, name, i + 1)

\* Load that goes on to the next source when the content does not parse
RECURSIVE LoadFromFallback(_, _, _)
LoadFromFallback(f, name, i) ==
    IF i > Len(sources)
    THEN [kind |-> "notfound", tmpl |-> NoTemplate, src |-> NoSource, store |-> FALSE]
    ELSE IF /\ SourceExists(f, sources[i], name)
            /\ ~SourceRead(f, sources[i], name).err
            /\ ~Parse(SourceRead(f, sources[i], name).content).err
         THEN parseTemplate(name, SourceRead(f, sources[i], name).content, sources[i])
         ELSE LoadFromFallback(f, name, i + 1)

\* the loop of Load over sources[i..]: the first source that exists and can be read
RECURSIVE LoadFrom(_, _, _)
LoadFrom(f, name, i) ==
    IF i > Len(sources)
    THEN [kind |-> "notfound", tmpl |-> NoTemplate, src |-> NoSource, store |-> FALSE]
    ELSE IF SourceExists(f, sources[i], name) /\ ~SourceRead(f, sources[i], name).err
         THEN parseTemplate(name, SourceRead(f, sources[i], name).content, sources[i])
         ELSE LoadFrom(f, name, i + 1)

\* Load without the look into the cache
LoadUncached(f, c, name) == LoadFrom(f, name, 1)

\* Load: the cache first, then the sources
Load(f, c, name) ==
    IF c[name].parsed
    THEN [kind |-> "ok", tmpl |-> c[name], src |-> NoSource, store |-> FALSE]
    ELSE LoadFrom(f, name, 1)

\* what Render returns, given what Load returned
RenderResult(l, data) ==
    IF l.kind # "ok"
    THEN [kind |-> l.kind, bytes |-> <<>>]
    ELSE IF Execute(l.tmpl.tree, data).err
         THEN [kind |-> "exec", bytes |-> <<>>]
         ELSE [kind |-> "ok", bytes |-> Execute(l.tmpl.tree, data).bytes]

\* the loop of Exists over sources[i..]
RECURSIVE ExistsFrom(_, _, _)
ExistsFrom(f, name, i) ==
    IF i > Len(sources)
    THEN FALSE
    ELSE IF SourceExists(f, sources[i], name) THEN TRUE ELSE ExistsFrom(f, name, i + 1)

\* the loop of Which over sources[i..]: the first source that exists, with its path
RECURSIVE WhichFrom(_, _, _)
WhichFrom(f, name, i) ==
    IF i > Len(sources)
    THEN [kind |-> "notfound", label |-> NoSource, path |-> <<>>]
    ELSE IF SourceExists(f, sources[i], name)
         THEN [kind |-> "ok", label |-> sources[i],
               path |-> IF sources[i] = "embedded"
                        THEN <<"embedded">>
                        ELSE <<sources[i]>> \o name]
         ELSE WhichFrom(f, name, i + 1)

\* Which that answers for a cached name without looking at the sources
WhichResultCached(f, name) ==
    IF cache[name].parsed
    THEN [kind |-> "ok", label |-> "embedded", path |-> <<"embedded">>]
    ELSE WhichFrom(f, name, 1)

WhichResult(f, name) == WhichFrom(f, name, 1)

\* strings.HasSuffix(path, ".tmpl"), decided on the last segment of the path
HasSuffixTmpl(path) ==
    path[Len(path)] \in {"service.go.tmpl", "entity.go.tmpl", "custom.go.tmpl"}

\* strings.TrimPrefix(path, "templates/")
TrimPrefixTemplates(path) ==
    IF Len(path) > 1 /\ path[1] = "templates" THEN Tail(path) ELSE path

\* List that also walks the override directories
ListWithOverrides ==
    { TrimPrefixTemplates(e.path) :
        e \in { x \in embeddedTemplates : ~x.isDir /\ HasSuffixTmpl(x.path) } }
    \cup { n \in Names : \E s \in FsSources : fs[s][n].kind = "file" }

\* List: the walk over the embedded bundle
ListResult ==
    { TrimPrefixTemplates(e.path) :
        e \in { x \in embeddedTemplates : ~x.isDir /\ HasSuffixTmpl(x.path) } }

\* the loop of loadRawTemplate over sources[i..]: the first source that exists is read
RECURSIVE loadRawFrom(_, _, _)
loadRawFrom(f, name, i) ==
    IF i > Len(sources)
    THEN [kind |-> "notfound", content |-> <<>>, src |-> NoSource]
    ELSE IF SourceExists(f, sources[i], name)
         THEN IF SourceRead(f, sources[i], name).err
              THEN [kind |-> "io", content |-> <<>>, src |-> sources[i]]
              ELSE [kind |-> "ok", content |-> SourceRead(f, sources[i], name).content,
                    src |-> sources[i]]
         ELSE loadRawFrom(f, name, i + 1)

\* loadRawTemplate that serves a cached name from the cache
loadRawTemplateCached(f, name) ==
    IF cache[name].parsed
    THEN [kind |-> "ok", content |-> cache[name].tree, src |-> NoSource]
    ELSE loadRawFrom(f, name, 1)

loadRawTemplate(f, name) == loadRawFrom(f, name, 1)

\* the override location Export and Reset work on
Destination(global) == IF global THEN "user-global" ELSE "project-local"

\* os.MkdirAll(filepath.Dir(destPath))
MkdirAll(ds, s, name) == [ds EXCEPT ![s] = @ \cup {Dir(name)}]

\* os.WriteFile that refuses a path that exists (O_EXCL)
WriteFileExclusive(f, s, name, content) ==
    IF f[s][name].kind # "none"
    THEN [err |-> TRUE, fs |-> f]
    ELSE [err |-> FALSE, fs |-> [f EXCEPT ![s][name] = File(content)]]

\* os.WriteFile: creates or truncates the file; fails when the path is a directory
WriteFile(f, s, name, content) ==
    IF f[s][name].kind = "dir"
    THEN [err |-> TRUE, fs |-> f]
    ELSE [err |-> FALSE, fs |-> [f EXCEPT ![s][name] = File(content)]]

\* Export that ignores its global flag and always writes the project-local override
ExportEffectProjectOnly(f, ds, name, global) ==
    LET raw == loadRawTemplate(f, name)
        dest == "project-local"
        w == WriteFile(f, dest, name, raw.content)
    IN IF raw.kind # "ok"
       THEN [kind |-> raw.kind, fs |-> f, dirs |-> ds]
       ELSE IF w.err
            THEN [kind |-> "io", fs |-> f, dirs |-> MkdirAll(ds, dest, name)]
            ELSE [kind |-> "ok", fs |-> w.fs, dirs |-> MkdirAll(ds, dest, name)]

\* Export: the file system and the error it leaves
ExportEffect(f, ds, name, global) ==
    LET raw == loadRawTemplate(f, name)
        dest == Destination(global)
        w == WriteFile(f, dest, name, raw.content)
    IN IF raw.kind # "ok"
       THEN [kind |-> raw.kind, fs |-> f, dirs |-> ds]
       ELSE IF w.err
            THEN [kind |-> "io", fs |-> f, dirs |-> MkdirAll(ds, dest, name)]
            ELSE [kind |-> "ok", fs |-> w.fs, dirs |-> MkdirAll(ds, dest, name)]

\* Reset that reports success without removing the override
ResetEffectKeepsFile(f, name, global) ==
    LET dest == Destination(global) IN
    IF ~FileExists(f, dest, name)
    THEN [kind |-> "nooverride", fs |-> f]
    ELSE [kind |-> "ok", fs |-> f]

\* Reset without the FileExists check: os.Remove fails on the missing path
ResetEffectUnchecked(f, name, global) ==
    LET dest == Destination(global) IN
    IF ~FileExists(f, dest, name)
    THEN [kind |-> "io", fs |-> f]
    ELSE [kind |-> "ok", fs |-> [f EXCEPT ![dest][name] = NoEntry]]

\* Reset: os.Remove deletes a file, and an empty directory such as MakeDir leaves
ResetEffect(f, name, global) ==
    LET dest == Destination(global) IN
    IF ~FileExists(f, dest, name)
    THEN [kind |-> "nooverride", fs |-> f]
    ELSE [kind |-> "ok", fs |-> [f EXCEPT ![dest][name] = NoEntry]]

\* the record kept of a call: its arguments, the error kind ("ok" for none), what it
\* returned, the source Load took the content from, whether the cache served it, and
\* whether it repeats the successful call before it
Call(op, name, global, data, kind, out, src, hit) ==
    [op |-> op, name |-> name, global |-> global, data |-> data,
     kind |-> kind, out |-> out, src |-> src, hit |-> hit,
     again |-> /\ op = "Export"
               /\ last.op = "Export" /\ last.kind = "ok"
               /\ last.name = name /\ last.global = global]

\* l := NewTemplateLoader(): a new instance replaces l; its cache is empty
NewTemplateLoader ==
    /\ \E n \in Names : cache[n].parsed
    /\ cache' = [n \in Names |-> NoTemplate]
    /\ first' = [n \in Names |-> NoRender]
    /\ last' = Call("NewTemplateLoader", NoName, FALSE, NoData, "ok", <<>>, NoSource, FALSE)
    /\ UNCHANGED <<fs, dirs, edits, vvars>>

\* l.Render(name, data): what it does to the loader and what it returns
RenderCall(name, data) ==
    LET l == Load(fs, cache, name)
        r == RenderResult(l, data)
    IN /\ cache' = IF l.store THEN [cache EXCEPT ![name] = l.tmpl] ELSE cache
       /\ last' = Call("Render", name, FALSE, data, r.kind, r.bytes, l.src, cache[name].parsed)
       /\ UNCHANGED <<fs, dirs, edits, vvars>>

\* l.Render(name, data)
Render(name, data) ==
    /\ RenderCall(name, data)
    /\ UNCHANGED first

\* l.Render(name, data), with the first result of l for name kept for comparison
RenderRecorded(name, data) ==
    /\ RenderCall(name, data)
    /\ first' = IF first[name].kind = "none"
                THEN [first EXCEPT ![name] =
                        [data |-> data, kind |-> last'.kind, bytes |-> last'.out]]
                ELSE first

\* l.Which(name)
Which(name) ==
    LET w == WhichResult(fs, name) IN
    /\ last' = Call("Which", name, FALSE, NoData, w.kind, w.path, w.label, FALSE)
    /\ UNCHANGED <<fs, dirs, cache, first, edits, vvars>>

\* l.List()
List ==
    /\ last' = Call("List", NoName, FALSE, NoData, "ok", ListResult, NoSource, FALSE)
    /\ UNCHANGED <<fs, dirs, cache, first, edits, vvars>>

\* l.Export(name, global)
Export(name, global) ==
    LET e == ExportEffect(fs, dirs, name, global) IN
    /\ fs' = e.fs
    /\ dirs' = e.dirs
    /\ last' = Call("Export", name, global, NoData, e.kind, <<>>, NoSource, FALSE)
    /\ UNCHANGED <<cache, first, edits, vvars>>

\* Reset that also drops the name from the cache
ResetInvalidating(name, global) ==
    LET r == ResetEffect(fs, name, global) IN
    /\ fs' = r.fs
    /\ cache' = [cache EXCEPT ![name] = NoTemplate]
    /\ last' = Call("Reset", name, global, NoData, r.kind, <<>>, NoSource, FALSE)
    /\ UNCHANGED <<dirs, first, edits, vvars>>

\* l.Reset(name, global)
Reset(name, global) ==
    LET r == ResetEffect(fs, name, global) IN
    /\ fs' = r.fs
    /\ last' = Call("Reset", name, global, NoData, r.kind, <<>>, NoSource, FALSE)
    /\ UNCHANGED <<dirs, cache, first, edits, vvars>>

\* hexago templates export <name> [--global]: a loader of its own, Exists, then Export
templatesExportCmd(name, global) ==
    LET e == IF ~ExistsFrom(fs, name, 1)
             THEN [kind |-> "notfound", fs |-> fs, dirs |-> dirs]
             ELSE ExportEffect(fs, dirs, name, global)
    IN /\ fs' = e.fs
       /\ dirs' = e.dirs
       /\ last' = Call("templates export", name, global, NoData, e.kind, <<>>, NoSource, FALSE)
       /\ UNCHANGED <<cache, first, edits, vvars>>

-----------------------------------------------------------------------------
(* Changes made to the override directories from outside the program *)

\* an editor writes <src.Path>/<name> (mkdir -p of its directory first)
EditFile(s, name, content) ==
    /\ edits < MaxEdits
    /\ fs[s][name].kind # "dir"
    /\ fs[s][name] # File(content)
    /\ fs' = [fs EXCEPT ![s][name] = File(content)]
    /\ dirs' = [dirs EXCEPT ![s] = @ \cup {Dir(name)}]
    /\ edits' = edits + 1
    /\ last' = Call("EditFile", name, FALSE, NoData, "ok", <<>>, s, FALSE)
    /\ UNCHANGED <<cache, first, vvars>>

\* mkdir -p <src.Path>/<name>: an empty directory where a template file is expected
MakeDir(s, name) ==
    /\ edits < MaxEdits
    /\ fs[s][name].kind = "none"
    /\ fs' = [fs EXCEPT ![s][name] = DirEntry]
    /\ dirs' = [dirs EXCEPT ![s] = @ \cup {Dir(name)}]
    /\ edits' = edits + 1
    /\ last' = Call("MakeDir", name, FALSE, NoData, "ok", <<>>, s, FALSE)
    /\ UNCHANGED <<cache, first, vvars>>

-----------------------------------------------------------------------------
(* ProjectConfig *)

\* the module path of the project, as in its go.mod
ModuleName == <<"acme.io", "/", "shop">>

NoConfig == [ModuleName |-> <<>>, AdapterStyle |-> "", CoreLogic |-> ""]

\* NewProjectConfig: the defaults
defaultConfig ==
    [ModuleName |-> ModuleName, AdapterStyle |-> "primary-secondary", CoreLogic |-> "services"]

\* the other documented choice of both naming values
drivenConfig ==
    [ModuleName |-> ModuleName, AdapterStyle |-> "driver-driven", CoreLogic |-> "usecases"]

\* naming values that are none of the documented ones, as a .hexago.yaml may hold
customConfig ==
    [ModuleName |-> ModuleName, AdapterStyle |-> "inbound-outbound", CoreLogic |-> "handlers"]

Configs == {defaultConfig, drivenConfig, customConfig}

AdapterInboundDir(c) == IF c.AdapterStyle = "driver-driven" THEN "driver" ELSE "primary"

AdapterOutboundDir(c) == IF c.AdapterStyle = "driver-driven" THEN "driven" ELSE "secondary"

CoreLogicDir(c) == c.CoreLogic

-----------------------------------------------------------------------------
(* strings and path/filepath, as far as the validator depends on them *)

\* strings.HasPrefix(s, prefix)
HasPrefix(s, prefix) ==
    Len(prefix) <= Len(s) /\ SubSeq(s, 1, Len(prefix)) = prefix

\* strings.Contains(s, substr)
Contains(s, substr) ==
    \E i \in 0..(Len(s) - Len(substr)) : SubSeq(s, i + 1, i + Len(substr)) = substr

\* strings.Title of a directory name
Title(s) ==
    CASE s = "services" -> "Services"
      [] s = "usecases" -> "Usecases"
      [] s = "handlers" -> "Handlers"
      [] OTHER -> s

\* filepath.Join(dir, elem): an empty element adds nothing
Join(dir, elem) == IF elem = "" THEN dir ELSE Append(dir, elem)

\* strings.HasSuffix(path, ".go"), decided on the file's name
HasSuffixGo(path) == path[Len(path)] \in {"order.go", "user.go", "user_test.go"}

\* strings.HasSuffix(path, "_test.go"), decided on the file's name
HasSuffixTestGo(path) == path[Len(path)] \in {"user_test.go"}

-----------------------------------------------------------------------------
(* The project tree *)

\* import paths that a source file of the project may declare
fmtPkg == <<"fmt">>
domainPkg == ModuleName \o <<"/", "internal", "/", "core", "/", "domain">>
databasePkg ==
    ModuleName \o <<"/", "internal", "/", "adapters", "/", "secondary", "/", "database">>
infraPkg == ModuleName \o <<"/", "internal", "/", "infrastructure", "/", "db">>
\* the package in the adapters directory itself: "adapters" is the last segment
adaptersPkg == ModuleName \o <<"/", "internal", "/", "adapters">>
\* a package of the project whose directory name only ends in "adapters"
myadaptersPkg == ModuleName \o <<"/", "internal", "/", "my", "adapters", "/", "x">>
\* a package of another module, acme.io/shop-tools
shopToolsPkg == <<"acme.io", "/", "shop", "-tools", "/", "adapters", "/", "cli">>
\* a package of a third-party module
thirdPartyPkg == <<"example.org", "/", "kit", "/", "adapters", "/", "sql">>

\* the import declarations of one file, in source order
ImportLists ==
    { <<domainPkg>>, <<databasePkg>>, <<infraPkg>>, <<adaptersPkg>>, <<myadaptersPkg>>,
      <<shopToolsPkg>>, <<thirdPartyPkg>>, <<fmtPkg, databasePkg, infraPkg>> }

\* a file: whether parser.ParseFile(..., ImportsOnly) accepts it, and its imports
NoFile == [present |-> FALSE, parses |-> FALSE, imports |-> <<>>]
GoSource(parses, imports) == [present |-> TRUE, parses |-> parses, imports |-> imports]

domainDir == <<"internal", "core", "domain">>
servicesDir == <<"internal", "core", "services">>
usecasesDir == <<"internal", "core", "usecases">>
adaptersDir == <<"internal", "adapters">>
httpDir == <<"internal", "adapters", "primary", "http">>
configDir == <<"internal", "config">>

\* the files of the project that the model follows, in the order filepath.Walk
\* visits them (lexical order in each directory)
WalkOrder ==
    << httpDir \o <<"user.go">>,
       domainDir \o <<"notes.md">>,
       domainDir \o <<"order.go">>,
       domainDir \o <<"user.go">>,
       domainDir \o <<"user_test.go">>,
       servicesDir \o <<"user.go">>,
       servicesDir \o <<"user_test.go">>,
       usecasesDir \o <<"user.go">> >>

FilePaths == {WalkOrder[i] : i \in 1..Len(WalkOrder)}

\* what an editor may write into a file of the given path
Contents(path) ==
    IF path = domainDir \o <<"order.go">>
    THEN {GoSource(TRUE, <<databasePkg>>)}
    ELSE IF HasSuffixGo(path) /\ ~HasSuffixTestGo(path)
         THEN {GoSource(TRUE, l) : l \in ImportLists} \cup {GoSource(FALSE, <<databasePkg>>)}
         ELSE {GoSource(TRUE, <<databasePkg>>)}

\* the directories of path: every proper prefix of it
Parents(path) == {SubSeq(path, 1, n) : n \in 1..(Len(path) - 1)}

\* generateDirectoryStructure: the directories `hexago init` creates, as far as the
\* validator looks at them
Scaffold(c) ==
    LET leaves == { domainDir,
                    <<"internal", "core", CoreLogicDir(c)>>,
                    <<"internal", "adapters", AdapterInboundDir(c), "http">>,
                    <<"internal", "adapters", AdapterOutboundDir(c), "database">>,
                    configDir }
    IN [dirs |-> leaves \cup UNION {Parents(d) : d \in leaves},
        files |-> [p \in FilePaths |-> NoFile]]

\* os.Stat(path) returns no error
Stat(t, path) == path \in t.dirs

\* os.RemoveAll(dir)
RemoveAll(t, dir) ==
    [dirs |-> {d \in t.dirs : ~HasPrefix(d, dir)},
     files |-> [p \in FilePaths |-> IF HasPrefix(p, dir) THEN NoFile ELSE t.files[p]]]

\* the file is written, its directory created when missing
WriteSource(t, path, content) ==
    [dirs |-> t.dirs \cup Parents(path),
     files |-> [t.files EXCEPT ![path] = content]]

\* filepath.Walk(dir, fn): an error when dir cannot be found, else the files under
\* dir in the order fn is called on them
Walk(t, dir) ==
    IF ~Stat(t, dir)
    THEN [err |-> TRUE, files |-> <<>>]
    ELSE [err |-> FALSE,
          files |-> LET under(p) == HasPrefix(p, dir) /\ t.files[p].present
                    IN SelectSeq(WalkOrder, under)]

-----------------------------------------------------------------------------
(* Validator *)

\* one entry of a list of the ValidationResult: the format of the message and what
\* fills it (a description or directory name, a path, a file)
Entry(msg, text, path, file) == [msg |-> msg, text |-> text, path |-> path, file |-> file]

\* the result Validate starts from
EmptyResult == [Successes |-> <<>>, Warnings |-> <<>>, Errors |-> <<>>]

\* the five checks, in the order Validate calls them
Checks == <<"structure", "domain", "services", "adapters", "naming">>

\* the closure validateCoreDependencies passes to checkImports
domainAllowed(importPath) ==
    /\ ~Contains(importPath, <<"/", "adapters", "/">>)
    /\ ~Contains(importPath, <<"/", "infrastructure", "/">>)

\* the closure validateServiceDependencies passes to checkImports
serviceAllowed(c, importPath) ==
    IF Contains(importPath, c.ModuleName)
    THEN ~Contains(importPath, <<"/", "adapters", "/">>)
    ELSE TRUE

\* the closure validateAdapterDependencies passes to checkImports: each branch
\* returns true
adapterAllowed(importPath) == TRUE

\* isAllowed(importPath) for the closure of the given check
isAllowed(check, c, importPath) ==
    CASE check = "domain" -> domainAllowed(importPath)
      [] check = "services" -> serviceAllowed(c, importPath)
      [] check = "adapters" -> adapterAllowed(importPath)

\* "Only check imports from the same module"
SameModule(c, importPath) == HasPrefix(importPath, c.ModuleName)

\* a walk function that parses every file it is called on
fileViolationsAllFiles(t, c, check, path) ==
    IF ~t.files[path].parses
    THEN <<>>
    ELSE LET bad(importPath) ==
                 SameModule(c, importPath) /\ ~isAllowed(check, c, importPath)
             found == SelectSeq(t.files[path].imports, bad)
         IN [i \in 1..Len(found) |-> [file |-> path, importPath |-> found[i]]]

\* a walk function that leaves a file at its first violation
fileViolationsFirstOnly(t, c, check, path) ==
    IF ~HasSuffixGo(path) \/ HasSuffixTestGo(path) \/ ~t.files[path].parses
    THEN <<>>
    ELSE LET bad(importPath) ==
                 SameModule(c, importPath) /\ ~isAllowed(check, c, importPath)
             found == SelectSeq(t.files[path].imports, bad)
         IN IF found = <<>>
            THEN <<>>
            ELSE <<[file |-> path, importPath |-> found[1]]>>

\* the walk function of checkImports on one file: the violations it appends
fileViolations(t, c, check, path) ==
    IF ~HasSuffixGo(path) \/ HasSuffixTestGo(path) \/ ~t.files[path].parses
    THEN <<>>
    ELSE LET bad(importPath) ==
                 SameModule(c, importPath) /\ ~isAllowed(check, c, importPath)
             found == SelectSeq(t.files[path].imports, bad)
         IN [i \in 1..Len(found) |-> [file |-> path, importPath |-> found[i]]]

\* the violations of files[i..], in walk order
RECURSIVE violationsFrom(_, _, _, _, _)
violationsFrom(t, c, check, files, i) ==
    IF i > Len(files)
    THEN <<>>
    ELSE fileViolations(t, c, check, files[i]) \o violationsFrom(t, c, check, files, i + 1)

\* checkImports(dir, isAllowed)
checkImports(t, c, check, dir) ==
    LET w == Walk(t, dir) IN
    IF w.err
    THEN [err |-> TRUE, violations |-> <<>>]
    ELSE [err |-> FALSE, violations |-> violationsFrom(t, c, check, w.files, 1)]

\* requiredDirs of validateProjectStructure
requiredDirs(c) ==
    << [path |-> domainDir, description |-> "Domain directory"],
       [path |-> Join(<<"internal", "core">>, CoreLogicDir(c)),
        description |-> "Core logic directory"],
       [path |-> Join(adaptersDir, AdapterInboundDir(c)),
        description |-> "Inbound adapters directory"],
       [path |-> Join(adaptersDir, AdapterOutboundDir(c)),
        description |-> "Outbound adapters directory"],
       [path |-> configDir, description |-> "Config directory"] >>

\* validateProjectStructure over requiredDirs[i..]
RECURSIVE structureFrom(_, _, _, _)
structureFrom(t, c, r, i) ==
    IF i > Len(requiredDirs(c))
    THEN r
    ELSE LET dir == requiredDirs(c)[i] IN
         IF Stat(t, dir.path)
         THEN structureFrom(t, c,
                  [r EXCEPT !.Successes =
                      Append(@, Entry("%s exists", dir.description, <<>>, <<>>))],
                  i + 1)
         ELSE structureFrom(t, c,
                  [r EXCEPT !.Warnings =
                      Append(@, Entry("%s not found: %s", dir.description, dir.path, <<>>))],
                  i + 1)

\* a structure check that stops at the first directory it does not find
RECURSIVE structureUntilMissing(_, _, _, _)
structureUntilMissing(t, c, r, i) ==
    IF i > Len(requiredDirs(c))
    THEN r
    ELSE LET dir == requiredDirs(c)[i] IN
         IF Stat(t, dir.path)
         THEN structureUntilMissing(t, c,
                  [r EXCEPT !.Successes =
                      Append(@, Entry("%s exists", dir.description, <<>>, <<>>))],
                  i + 1)
         ELSE [r EXCEPT !.Warnings =
                  Append(@, Entry("%s not found: %s", dir.description, dir.path, <<>>))]

validateProjectStructureUntilMissing(t, c, r) == structureUntilMissing(t, c, r, 1)

validateProjectStructure(t, c, r) == structureFrom(t, c, r, 1)

\* the entries a check makes of its violations, one for each
violationEntries(msg, text, violations) ==
    [i \in 1..Len(violations) |->
        Entry(msg, text, violations[i].importPath, violations[i].file)]

validateCoreDependencies(t, c, r) ==
    LET chk == checkImports(t, c, "domain", domainDir) IN
    IF chk.err
    THEN [r EXCEPT !.Warnings =
             Append(@, Entry("Could not check domain dependencies: %v", "", domainDir, <<>>))]
    ELSE IF Len(chk.violations) = 0
         THEN [r EXCEPT !.Successes =
                  Append(@, Entry("Core domain has no external dependencies", "", <<>>, <<>>))]
         ELSE [r EXCEPT !.Errors =
                  @ \o violationEntries("Domain imports external package: %s in %s", "",
                                        chk.violations)]

\* a business-logic check that says nothing when it cannot walk its directory
validateServiceDependenciesSilent(t, c, r) ==
    LET servicePath == Join(<<"internal", "core">>, CoreLogicDir(c))
        chk == checkImports(t, c, "services", servicePath)
    IN
    IF chk.err
    THEN r
    ELSE IF Len(chk.violations) = 0
         THEN [r EXCEPT !.Successes =
                  Append(@, Entry("%s only depend on domain and ports",
                                  Title(CoreLogicDir(c)), <<>>, <<>>))]
         ELSE [r EXCEPT !.Errors =
                  @ \o violationEntries("%s imports adapter: %s in %s",
                                        Title(CoreLogicDir(c)), chk.violations)]

validateServiceDependencies(t, c, r) ==
    LET servicePath == Join(<<"internal", "core">>, CoreLogicDir(c))
        chk == checkImports(t, c, "services", servicePath)
    IN
    IF chk.err
    THEN [r EXCEPT !.Warnings =
             Append(@, Entry("Could not check %s dependencies: %v", CoreLogicDir(c),
                             servicePath, <<>>))]
    ELSE IF Len(chk.violations) = 0
         THEN [r EXCEPT !.Successes =
                  Append(@, Entry("%s only depend on domain and ports",
                                  Title(CoreLogicDir(c)), <<>>, <<>>))]
         ELSE [r EXCEPT !.Errors =
                  @ \o violationEntries("%s imports adapter: %s in %s",
                                        Title(CoreLogicDir(c)), chk.violations)]

validateAdapterDependencies(t, c, r) ==
    LET chk == checkImports(t, c, "adapters", adaptersDir) IN
    IF chk.err
    THEN [r EXCEPT !.Warnings =
             Append(@, Entry("Could not check adapter dependencies: %v", "", adaptersDir, <<>>))]
    ELSE IF Len(chk.violations) = 0
         THEN [r EXCEPT !.Successes =
                  Append(@, Entry("Adapters follow dependency rules", "", <<>>, <<>>))]
         ELSE [r EXCEPT !.Warnings =
                  @ \o violationEntries("Adapter cross-import: %s in %s", "", chk.violations)]

validateNamingConventions(t, c, r) ==
    LET inboundPath == Join(adaptersDir, AdapterInboundDir(c))
        outboundPath == Join(adaptersDir, AdapterOutboundDir(c))
        coreLogicPath == Join(<<"internal", "core">>, CoreLogicDir(c))
        r1 == IF Stat(t, inboundPath)
              THEN [r EXCEPT !.Successes =
                       Append(@, Entry("Using %s for inbound adapters",
                                       AdapterInboundDir(c), <<>>, <<>>))]
              ELSE r
        r2 == IF Stat(t, outboundPath)
              THEN [r1 EXCEPT !.Successes =
                       Append(@, Entry("Using %s for outbound adapters",
                                       AdapterOutboundDir(c), <<>>, <<>>))]
              ELSE r1
    IN IF Stat(t, coreLogicPath)
       THEN [r2 EXCEPT !.Successes =
                Append(@, Entry("Using %s for business logic", CoreLogicDir(c), <<>>, <<>>))]
       ELSE r2

\* what the check does to the result
RunCheck(check, t, c, r) ==
    CASE check = "structure" -> validateProjectStructure(t, c, r)
      [] check = "domain" -> validateCoreDependencies(t, c, r)
      [] check = "services" -> validateServiceDependencies(t, c, r)
      [] check = "adapters" -> validateAdapterDependencies(t, c, r)
      [] check = "naming" -> validateNamingConventions(t, c, r)

\* validator := generator.NewValidator(config)
NewValidator(c) ==
    /\ pc = "idle"
    /\ config = NoConfig
    /\ config' = c
    /\ UNCHANGED <<proj, pc, result, ran, changes, err, prev, lvars>>

\* a Validate that goes on with the result of the run before
ValidateCallAppending ==
    /\ pc \in {"idle", "done"}
    /\ config # NoConfig
    /\ result' = result
    /\ ran' = <<>>
    /\ pc' = Checks[1]
    /\ UNCHANGED <<proj, config, changes, err, lvars>>

\* v.Validate() is entered, for the first time or again: a new, empty result
ValidateCall ==
    /\ pc \in {"idle", "done"}
    /\ config # NoConfig
    /\ result' = EmptyResult
    /\ ran' = <<>>
    /\ pc' = Checks[1]
    /\ UNCHANGED <<proj, config, changes, err, lvars>>

\* result := validator.Validate() of runValidate
Validate ==
    /\ pc = "idle"
    /\ ValidateCall
    /\ UNCHANGED prev

\* v.Validate(), with the result of the run before it kept for comparison
ValidateRecorded ==
    /\ ValidateCall
    /\ prev' = IF pc = "done" THEN [set |-> TRUE, result |-> result] ELSE prev

\* a Validate that returns as soon as a check could not walk its directory
CheckAborting(check) ==
    LET r == RunCheck(check, proj, config, result) IN
    /\ pc = check
    /\ result' = r
    /\ ran' = Append(ran, check)
    /\ pc' = IF Len(ran) + 1 < Len(Checks) /\ ~(check # "structure" /\ r.Warnings # result.Warnings)
             THEN Checks[Len(ran) + 2]
             ELSE "done"
    /\ UNCHANGED <<proj, config, changes, err, prev, lvars>>

\* the call of one check by Validate, and the step to the next
Check(check) ==
    /\ pc = check
    /\ result' = RunCheck(check, proj, config, result)
    /\ ran' = Append(ran, check)
    /\ pc' = IF Len(ran) + 1 < Len(Checks) THEN Checks[Len(ran) + 2] ELSE "done"
    /\ UNCHANGED <<proj, config, changes, err, prev, lvars>>

\* Check 1: v.validateProjectStructure(result)
CheckStructure == Check("structure")

\* Check 2: v.validateCoreDependencies(result)
CheckDomain == Check("domain")

\* Check 3: v.validateServiceDependencies(result)
CheckServices == Check("services")

\* Check 4: v.validateAdapterDependencies(result)
CheckAdapters == Check("adapters")

\* Check 5: v.validateNamingConventions(result)
CheckNaming == Check("naming")

\* r.HasErrors() with warnings counted as errors
HasErrorsOrWarnings(r) == Len(r.Errors) > 0 \/ Len(r.Warnings) > 0

\* r.HasErrors()
HasErrors(r) == Len(r.Errors) > 0

\* r.ErrorCount()
ErrorCount(r) == Len(r.Errors)

\* an error value: its message and the number that fills it
Error(msg, n) == [msg |-> msg, n |-> n]

\* nil
NoError == Error("", 0)

\* runValidate after Validate has returned: the result is printed, and an error is
\* returned if it has errors
runValidateReturn ==
    /\ pc = "done"
    /\ pc' = "exited"
    /\ err' = IF HasErrors(result)
              THEN Error("validation failed with %d error(s)", ErrorCount(result))
              ELSE NoError
    /\ UNCHANGED <<proj, config, result, ran, changes, prev, lvars>>

\* hexago validate --fix: runValidate returns an error before it looks at the project
runValidateFix ==
    /\ pc = "idle" /\ config = NoConfig
    /\ pc' = "exited"
    /\ err' = Error("--fix flag not yet implemented", 0)
    /\ UNCHANGED <<proj, config, result, ran, changes, prev, lvars>>

\* the process ends
Exit ==
    /\ pc = "exited"
    /\ pc' = "idle"
    /\ config' = NoConfig
    /\ result' = EmptyResult
    /\ ran' = <<>>
    /\ err' = NoError
    /\ prev' = [set |-> FALSE, result |-> EmptyResult]
    /\ UNCHANGED <<proj, changes, lvars>>

\* an editor writes a source file of the project, between two runs
WriteSourceFile(path, content) ==
    /\ pc = "idle" /\ config = NoConfig
    /\ changes < MaxChanges
    /\ proj.files[path] # content
    /\ proj' = WriteSource(proj, path, content)
    /\ changes' = changes + 1
    /\ UNCHANGED <<config, pc, result, ran, err, prev, lvars>>

\* rm -r of a directory of the project, between two runs
RemoveDir(dir) ==
    /\ pc = "idle" /\ config = NoConfig
    /\ changes < MaxChanges
    /\ Stat(proj, dir)
    /\ proj' = RemoveAll(proj, dir)
    /\ changes' = changes + 1
    /\ UNCHANGED <<config, pc, result, ran, err, prev, lvars>>

\* the directories that are removed in the behaviours followed
Removable ==
    {domainDir, servicesDir, adaptersDir, <<"internal", "adapters", "secondary">>, configDir}

-----------------------------------------------------------------------------

Init ==
    /\ fs = [s \in FsSources |-> [n \in Names |-> NoEntry]]
    /\ dirs = [s \in FsSources |-> {}]
    /\ cache = [n \in Names |-> NoTemplate]
    /\ first = [n \in Names |-> NoRender]
    /\ edits = 0
    /\ last = [op |-> "NewTemplateLoader", name |-> NoName, global |-> FALSE, data |-> NoData,
               kind |-> "ok", out |-> <<>>, src |-> NoSource, hit |-> FALSE, again |-> FALSE]
    /\ proj = Scaffold(defaultConfig)
    /\ config = NoConfig
    /\ pc = "idle"
    /\ result = EmptyResult
    /\ ran = <<>>
    /\ changes = 0
    /\ err = NoError
    /\ prev = [set |-> FALSE, result |-> EmptyResult]

Next ==
    \/ NewTemplateLoader
    \/ \E n \in Names, d \in DataContexts : Render(n, d)
    \/ \E n \in Names : Which(n)
    \/ List
    \/ \E n \in Names, g \in BOOLEAN : Export(n, g)
    \/ \E n \in Names, g \in BOOLEAN : Reset(n, g)
    \/ \E n \in Names, g \in BOOLEAN : templatesExportCmd(n, g)
    \/ \E s \in FsSources, n \in Names, c \in EditContents : EditFile(s, n, c)
    \/ \E s \in FsSources, n \in Names : MakeDir(s, n)

Spec == Init /\ [][Next]_vars

\* the loader with its renders recorded: Render, Export, edits and new loaders
NextStale ==
    \/ NewTemplateLoader
    \/ \E n \in Names, d \in DataContexts : RenderRecorded(n, d)
    \/ \E n \in Names, g \in BOOLEAN : Export(n, g)
    \/ \E s \in FsSources, n \in Names, c \in EditContents : EditFile(s, n, c)

SpecStale == Init /\ [][NextStale]_vars

\* the validator on a project that `hexago init` has laid out
InitValidate ==
    /\ fs = [s \in FsSources |-> [n \in Names |-> NoEntry]]
    /\ dirs = [s \in FsSources |-> {}]
    /\ cache = [n \in Names |-> NoTemplate]
    /\ first = [n \in Names |-> NoRender]
    /\ edits = 0
    /\ last = [op |-> "NewTemplateLoader", name |-> NoName, global |-> FALSE, data |-> NoData,
               kind |-> "ok", out |-> <<>>, src |-> NoSource, hit |-> FALSE, again |-> FALSE]
    /\ proj \in {Scaffold(defaultConfig), Scaffold(drivenConfig)}
    /\ config = NoConfig
    /\ pc = "idle"
    /\ result = EmptyResult
    /\ ran = <<>>
    /\ changes = 0
    /\ err = NoError
    /\ prev = [set |-> FALSE, result |-> EmptyResult]

NextValidate ==
    \/ \E c \in Configs : NewValidator(c)
    \/ Validate
    \/ CheckStructure
    \/ CheckDomain
    \/ CheckServices
    \/ CheckAdapters
    \/ CheckNaming
    \/ runValidateReturn
    \/ runValidateFix
    \/ Exit
    \/ \E p \in FilePaths : \E content \in Contents(p) : WriteSourceFile(p, content)
    \/ \E d \in Removable : RemoveDir(d)

SpecValidate == InitValidate /\ [][NextValidate]_vars

\* one Validator whose Validate is run again and again on the same project
NextRepeat ==
    \/ \E c \in Configs : NewValidator(c)
    \/ ValidateRecorded
    \/ CheckStructure
    \/ CheckDomain
    \/ CheckServices
    \/ CheckAdapters
    \/ CheckNaming
    \/ runValidateReturn
    \/ Exit
    \/ \E p \in FilePaths : \E content \in Contents(p) : WriteSourceFile(p, content)
    \/ \E d \in Removable : RemoveDir(d)

SpecRepeat == InitValidate /\ [][NextRepeat]_vars

-----------------------------------------------------------------------------
(* Notions the properties are stated with *)

AllSources == {sources[i] : i \in 1..Len(sources)}

\* the source has a template file for name
HasFile(f, s, name) ==
    IF s = "embedded"
    THEN \E e \in embeddedTemplates : ~e.isDir /\ e.path = <<"templates">> \o name
    ELSE f[s][name].kind = "file"

\* the source has something at the path of name, a file or a directory
HasEntry(f, s, name) ==
    IF s = "embedded"
    THEN HasFile(f, s, name)
    ELSE f[s][name].kind # "none"

Holders(f, name) == {s \in AllSources : HasFile(f, s, name)}
Entries(f, name) == {s \in AllSources : HasEntry(f, s, name)}

\* the source of the numerically lowest priority rank among S
Lowest(S) == CHOOSE s \in S : \A t \in S : Priority(s) <= Priority(t)

\* the bytes of the source's file for name
ContentOf(f, s, name) ==
    IF s = "embedded"
    THEN (CHOOSE e \in embeddedTemplates : ~e.isDir /\ e.path = <<"templates">> \o name).content
    ELSE f[s][name].content

\* what a loader that has not cached name is expected to return for Render(name, data)
FreshRender(f, name, data) ==
    IF Holders(f, name) = {}
    THEN [kind |-> "notfound", bytes |-> <<>>, src |-> NoSource]
    ELSE LET w == Lowest(Holders(f, name))
             p == Parse(ContentOf(f, w, name))
         IN IF p.err
            THEN [kind |-> "syntax", bytes |-> <<>>, src |-> w]
            ELSE IF Execute(p.tree, data).err
                 THEN [kind |-> "exec", bytes |-> <<>>, src |-> w]
                 ELSE [kind |-> "ok", bytes |-> Execute(p.tree, data).bytes, src |-> w]

Returned == [kind |-> last.kind, bytes |-> last.out, src |-> last.src]

-----------------------------------------------------------------------------
(* Properties *)

CacheStaleness ==
    last.op = "Render" =>
        /\ (/\ first[last.name].kind \in {"ok", "exec"}
            /\ first[last.name].data = last.data)
           => (last.kind = first[last.name].kind /\ last.out = first[last.name].bytes)
        /\ ~last.hit =>
             (/\ last.kind = FreshRender(fs, last.name, last.data).kind
              /\ last.out = FreshRender(fs, last.name, last.data).bytes)

\* C2 witness: the cache served the render with the first output although a
\* project-local override that parses now wins and a new loader would render otherwise.
CacheStalenessWitness ==
    /\ last.op = "Render" /\ last.hit /\ last.kind = "ok"
    /\ first[last.name].kind = "ok" /\ first[last.name].data = last.data
    /\ last.out = first[last.name].bytes
    /\ Lowest(Holders(fs, last.name)) = "project-local"
    /\ FreshRender(fs, last.name, last.data).kind = "ok"
    /\ FreshRender(fs, last.name, last.data).bytes # last.out

ExportTwiceSame ==
    [][(last'.op = "Export" /\ last'.again)
       => (last'.kind = "ok" /\ fs' = fs /\ dirs' = dirs)]_vars

\* C5 witness: a repeated export has succeeded onto a destination that existed, with
\* another override of different content below it.
ExportTwiceWitness ==
    /\ last.op = "Export" /\ last.again /\ last.kind = "ok" /\ ~last.global
    /\ fs["project-local"][last.name].kind = "file"
    /\ fs["user-global"][last.name].kind = "file"
    /\ fs["binary-local"][last.name].kind = "file"
    /\ fs["user-global"][last.name] # fs["project-local"][last.name]

\* C6: a successful Export(name, tier) leaves at tier's path for name a file with the
\* bytes of the highest-priority source that had an entry for name when it was
\* called, whatever the loader's cache holds for name.
ExportCopiesWinner ==
    [][(last'.op = "Export" /\ last'.kind = "ok")
       => LET w == Lowest(Entries(fs, last'.name))
          IN /\ HasFile(fs, w, last'.name)
             /\ fs'[Destination(last'.global)][last'.name]
                    = File(ContentOf(fs, w, last'.name))]_vars

\* C6 witness: the export wrote the user-global override's bytes to project-local
\* while the loader's cache holds for the name a parse of other content.
ExportCopiesWinnerWitness ==
    /\ last.op = "Export" /\ last.kind = "ok" /\ ~last.global
    /\ cache[last.name].parsed
    /\ fs["binary-local"][last.name].kind = "none"
    /\ fs["user-global"][last.name].kind = "file"
    /\ fs["project-local"][last.name] = fs["user-global"][last.name]
    /\ File(cache[last.name].tree) # fs["project-local"][last.name]

\* C7 as stated: after a successful `templates export <name>` the file at the chosen
\* override location has the content of the embedded template for name.
ExportCmdCopiesBuiltIn ==
    (last.op = "templates export" /\ last.kind = "ok") =>
        /\ HasFile(fs, "embedded", last.name)
        /\ fs[Destination(last.global)][last.name]
               = File(ContentOf(fs, "embedded", last.name))

\* C8 as stated: when no source has an entry for name, Render, Which and Export each
\* return not-found, and the file system is left as it was.
NotFoundWhenNoSource ==
    [][(/\ last'.op \in {"Render", "Which", "Export"}
        /\ Entries(fs, last'.name) = {})
       => (last'.kind = "notfound" /\ fs' = fs /\ dirs' = dirs)]_vars

\* C9: Reset(name, tier) with nothing at tier's path for name returns the no-override
\* error, which is not the not-found error, and leaves every file and directory as
\* it was, also when name resolves in other sources.
ResetMissingOverride ==
    [][(last'.op = "Reset" /\ ~HasEntry(fs, Destination(last'.global), last'.name))
       => (/\ last'.kind = "nooverride"
           /\ last'.kind # "notfound"
           /\ fs' = fs /\ dirs' = dirs)]_vars

\* C9 witness: Reset of a project-local override that does not exist was refused
\* while the name resolves to a user-global override.
ResetMissingWitness ==
    /\ last.op = "Reset" /\ last.kind = "nooverride" /\ ~last.global
    /\ fs["project-local"][last.name].kind = "none"
    /\ fs["user-global"][last.name].kind = "file"
    /\ WhichResult(fs, last.name).label = "user-global"

\* C10: List returns exactly the names the embedded source holds, whatever files
\* the override directories hold.
ListIsEmbeddedCatalogue ==
    last.op = "List" =>
        /\ \A n \in Names \cup {entName} : n \in last.out <=> SourceExists(fs, "embedded", n)
        /\ last.out \subseteq Names \cup {entName}

\* C10 witness: List was called while an override file exists for a name the bundle
\* does not define and another for a name it defines.
ListWitness ==
    /\ last.op = "List"
    /\ \E s \in FsSources : fs[s][customName].kind = "file"
    /\ \E s \in FsSources : fs[s][svcName].kind = "file"
    /\ customName \notin last.out
    /\ svcName \in last.out

\* C11 as stated: Render and Which succeed only for names that List returns; an
\* override file for a name the bundle does not define makes neither succeed.
ResolvedNamesAreListed ==
    (last.op \in {"Render", "Which"} /\ last.kind = "ok") => last.name \in ListResult

\* C12 as stated: whenever the file of the highest-priority source holding name does
\* not parse, Render returns a syntax error naming that source and no rendered bytes.
SyntaxErrorNeverSwallowed ==
    (/\ last.op = "Render"
     /\ Holders(fs, last.name) # {}
     /\ Parse(ContentOf(fs, Lowest(Holders(fs, last.name)), last.name)).err)
    => (last.kind = "syntax" /\ last.src = Lowest(Holders(fs, last.name)) /\ last.out = <<>>)

\* C12, amended: a Render that the cache does not serve returns a syntax error naming
\* the highest-priority holding source, and no bytes, whenever that source's file does
\* not parse, also when a source of lower priority holds a file that parses.
SyntaxErrorOnLoad ==
    (/\ last.op = "Render" /\ ~last.hit
     /\ Holders(fs, last.name) # {}
     /\ Parse(ContentOf(fs, Lowest(Holders(fs, last.name)), last.name)).err)
    => (last.kind = "syntax" /\ last.src = Lowest(Holders(fs, last.name)) /\ last.out = <<>>)

\* C12 witness: Render failed with a syntax error naming the project-local override
\* while the embedded bundle holds a file for the name that parses.
SyntaxErrorWitness ==
    /\ last.op = "Render" /\ ~last.hit
    /\ last.kind = "syntax" /\ last.src = "project-local"
    /\ fs["project-local"][last.name].kind = "file"
    /\ HasFile(fs, "embedded", last.name)
    /\ ~Parse(ContentOf(fs, "embedded", last.name)).err

-----------------------------------------------------------------------------
(* Notions the validator's properties are stated with *)

\* the check that writes entries of the given message
CheckOf(msg) ==
    CASE msg \in {"%s exists", "%s not found: %s"} -> 1
      [] msg \in {"Could not check domain dependencies: %v",
                  "Core domain has no external dependencies",
                  "Domain imports external package: %s in %s"} -> 2
      [] msg \in {"Could not check %s dependencies: %v",
                  "%s only depend on domain and ports",
                  "%s imports adapter: %s in %s"} -> 3
      [] msg \in {"Could not check adapter dependencies: %v",
                  "Adapters follow dependency rules",
                  "Adapter cross-import: %s in %s"} -> 4
      [] msg \in {"Using %s for inbound adapters", "Using %s for outbound adapters",
                  "Using %s for business logic"} -> 5

\* the entries of the list stand in the order of the checks that wrote them
InCheckOrder(list) ==
    \A i, j \in 1..Len(list) : i < j => CheckOf(list[i].msg) <= CheckOf(list[j].msg)

\* the entries of the list that the check of the given number wrote
EntriesOf(list, n) == LET by(e) == CheckOf(e.msg) = n IN SelectSeq(list, by)

\* all entries of a result that the check of the given number wrote
AllEntriesOf(r, n) ==
    EntriesOf(r.Successes, n) \o EntriesOf(r.Warnings, n) \o EntriesOf(r.Errors, n)

\* C13: a run of Validate carries out the five checks once each in the order
\* structure, domain, services, adapters, naming, whatever a check found; it ends by
\* returning the result; the entries of each list stand in the order of the checks.
FiveChecksInOrder ==
    /\ ran = SubSeq(Checks, 1, Len(ran))
    /\ pc \in {"idle", "done", "exited"} \/ (Len(ran) < Len(Checks) /\ pc = Checks[Len(ran) + 1])
    /\ pc = "done" => ran = Checks
    /\ InCheckOrder(result.Successes)
    /\ InCheckOrder(result.Warnings)
    /\ InCheckOrder(result.Errors)
    /\ \A n \in 1..Len(Checks) :
          (pc = "done" \/ Len(ran) >= n) => AllEntriesOf(result, n) # <<>> \/ n = 5
    /\ \A n \in 1..Len(Checks) : Len(ran) < n => AllEntriesOf(result, n) = <<>>

\* C13 witness: a run has returned after the domain check found a violation and the
\* business-logic check could not walk its directory, with all five checks carried out.
FiveChecksWitness ==
    /\ pc = "done" /\ ran = Checks
    /\ \E i \in 1..Len(result.Errors) : CheckOf(result.Errors[i].msg) = 2
    /\ \E i \in 1..Len(result.Warnings) :
          result.Warnings[i].msg = "Could not check %s dependencies: %v"
    /\ \E i \in 1..Len(result.Successes) : CheckOf(result.Successes[i].msg) = 5

\* the path segments of an import path: its pieces between the separators
RECURSIVE SegmentsFrom(_, _, _)
SegmentsFrom(s, i, cur) ==
    IF i > Len(s)
    THEN <<cur>>
    ELSE IF s[i] = "/"
         THEN <<cur>> \o SegmentsFrom(s, i + 1, <<>>)
         ELSE SegmentsFrom(s, i + 1, Append(cur, s[i]))

Segments(s) == SegmentsFrom(s, 1, <<>>)

\* the import path has a path segment of the given name, at any position
HasSegment(s, name) == \E i \in 1..Len(Segments(s)) : Segments(s)[i] = <<name>>

\* the package belongs to the module of the project: the module itself or below it
InModule(c, importPath) ==
    importPath = c.ModuleName \/ HasPrefix(importPath, c.ModuleName \o <<"/">>)

\* the import declarations of the compilation units under dir that a layer check
\* examines: those of the files that are .go files, not tests, and that parse
Declared(t, dir) ==
    UNION { { [file |-> p, importPath |-> t.files[p].imports[i]] :
                i \in 1..Len(t.files[p].imports) } :
            p \in { x \in FilePaths :
                        /\ HasPrefix(x, dir) /\ t.files[x].present
                        /\ HasSuffixGo(x) /\ ~HasSuffixTestGo(x)
                        /\ t.files[x].parses } }

\* the (file, dependency) pairs that the entries of the given check in the list name
Named(list, n) ==
    { [file |-> list[i].file, importPath |-> list[i].path] :
        i \in { k \in 1..Len(list) : CheckOf(list[k].msg) = n /\ list[k].file # <<>> } }

\* C14 as stated: when the domain check has walked the domain directory, it names in
\* an Error exactly the dependencies on the project's own module whose path has an
\* "adapters" or an "infrastructure" segment, at whatever position.
DomainRuleBySegment ==
    (Len(ran) >= 2 /\ Stat(proj, domainDir)) =>
        \A d \in Declared(proj, domainDir) :
            InModule(config, d.importPath) =>
                (d \in Named(result.Errors, 2)
                    <=> (\/ HasSegment(d.importPath, "adapters")
                         \/ HasSegment(d.importPath, "infrastructure")))

\* C15 as stated: when the business-logic check has walked its directory, it names in
\* an Error exactly the dependencies on the project's own module whose path has an
\* "adapters" segment, at whatever position.
ServiceRuleBySegment ==
    LET servicePath == Join(<<"internal", "core">>, CoreLogicDir(config)) IN
    (Len(ran) >= 3 /\ Stat(proj, servicePath)) =>
        \A d \in Declared(proj, servicePath) :
            InModule(config, d.importPath) =>
                (d \in Named(result.Errors, 3) <=> HasSegment(d.importPath, "adapters"))

\* the number of entries of the list that are the given entry
Count(list, e) == Cardinality({i \in 1..Len(list) : list[i] = e})

\* the Error the domain check writes for a (file, dependency) pair
DomainError(d) ==
    Entry("Domain imports external package: %s in %s", "", d.importPath, d.file)

\* the Success the domain check writes when it found nothing
DomainSuccess == Entry("Core domain has no external dependencies", "", <<>>, <<>>)

CrossImportWarning(d) == Entry("Adapter cross-import: %s in %s", "", d.importPath, d.file)

\* C17 as stated: once the adapter check has run, every dependency of an adapter unit
\* on an adapter package of the project is named by one Warning, and the adapter check
\* has added no Error.
CrossAdapterImportWarned ==
    Len(ran) >= 4 =>
        /\ \A d \in Declared(proj, adaptersDir) :
              (InModule(config, d.importPath) /\ HasSegment(d.importPath, "adapters"))
                  => Count(result.Warnings, CrossImportWarning(d)) = 1
        /\ EntriesOf(result.Errors, 4) = <<>>

\* C18 as stated: every Error and every Warning that names a dependency names one of
\* the project's own module; a package of the standard library, of a third party or
\* of another module is named by none, whatever the segments of its path.
ExternalImportsIgnored ==
    /\ \A i \in 1..Len(result.Errors) :
          result.Errors[i].file # <<>> => InModule(config, result.Errors[i].path)
    /\ \A i \in 1..Len(result.Warnings) :
          result.Warnings[i].file # <<>> => InModule(config, result.Warnings[i].path)

\* the business-logic directory the configuration names
LogicPath(c) == Join(<<"internal", "core">>, CoreLogicDir(c))

\* the business-logic directory is absent and the four other expected directories
\* are present
OnlyLogicDirMissing(t, c) ==
    /\ ~Stat(t, LogicPath(c))
    /\ \A i \in 1..Len(requiredDirs(c)) :
          requiredDirs(c)[i].path # LogicPath(c) => Stat(t, requiredDirs(c)[i].path)

\* no compilation unit of the project declares a dependency whose path has an
\* "adapters" or an "infrastructure" segment
Clean(t) ==
    \A d \in Declared(t, <<"internal">>) :
        ~HasSegment(d.importPath, "adapters") /\ ~HasSegment(d.importPath, "infrastructure")

\* the entries of the list that name the given directory
About(list, dir) == LET names(e) == e.path = dir IN SelectSeq(list, names)

\* C19 as stated: a run on a clean project that lacks only its business-logic
\* directory ends with exactly one Warning about that directory and no Error.
MissingLogicDirOneWarning ==
    (pc = "done" /\ OnlyLogicDirMissing(proj, config) /\ Clean(proj)) =>
        /\ Len(About(result.Warnings, LogicPath(config))) = 1
        /\ result.Errors = <<>>

\* C19, amended: such a run ends with exactly two Warnings, both about that
\* directory - "Core logic directory not found" of the structure check, then "Could
\* not check ... dependencies" of the business-logic check, which could not walk it -
\* with no Error, and with no Success of the business-logic check.
MissingLogicDirTwoWarnings ==
    (pc = "done" /\ OnlyLogicDirMissing(proj, config) /\ Clean(proj)) =>
        /\ result.Warnings =
              << Entry("%s not found: %s", "Core logic directory", LogicPath(config), <<>>),
                 Entry("Could not check %s dependencies: %v", CoreLogicDir(config),
                       LogicPath(config), <<>>) >>
        /\ result.Errors = <<>>
        /\ EntriesOf(result.Successes, 3) = <<>>

\* C19 witness: a run has returned on a project whose services directory was removed,
\* whose other expected directories exist, and whose domain unit declares a permitted
\* dependency.
MissingLogicDirWitness ==
    /\ pc = "done" /\ config = defaultConfig
    /\ OnlyLogicDirMissing(proj, config) /\ Clean(proj)
    /\ Declared(proj, domainDir) # {}
    /\ Len(result.Warnings) = 2

\* C20: once the structure check has run, each of the five expected directories -
\* domain, business logic, inbound adapters, outbound adapters, config - has exactly
\* one entry of the structure check: a Success when the directory exists, a Warning
\* naming its path when it does not; the structure check has added no Error.
StructureOneEntryEach ==
    Len(ran) >= 1 =>
        /\ \A i \in 1..Len(requiredDirs(config)) :
              LET dir == requiredDirs(config)[i]
                  ok == Entry("%s exists", dir.description, <<>>, <<>>)
                  missing == Entry("%s not found: %s", dir.description, dir.path, <<>>)
              IN /\ Count(result.Successes, ok) = (IF Stat(proj, dir.path) THEN 1 ELSE 0)
                 /\ Count(result.Warnings, missing) = (IF Stat(proj, dir.path) THEN 0 ELSE 1)
        /\ Len(AllEntriesOf(result, 1)) = Len(requiredDirs(config))
        /\ Len(requiredDirs(config)) = 5
        /\ EntriesOf(result.Errors, 1) = <<>>

\* C20 witness: the structure check has run for the driver-driven, usecases
\* convention on a project laid out for it whose config directory was removed: four
\* Successes and one Warning.
StructureWitness ==
    /\ Len(ran) >= 1 /\ config = drivenConfig
    /\ Stat(proj, <<"internal", "adapters", "driver">>) /\ Stat(proj, usecasesDir)
    /\ ~Stat(proj, configDir)
    /\ Len(EntriesOf(result.Successes, 1)) + 1 = Len(requiredDirs(config))
    /\ Len(EntriesOf(result.Warnings, 1)) = 1

\* C21: when runValidate has returned after a run of Validate, it returned an error
\* exactly if the Errors list of the result is not empty, which is what HasErrors
\* says, and the error carries the length of that list, which is what ErrorCount
\* says; a result with Warnings and no Error makes it return nil.
FailsIffErrors ==
    (pc = "exited" /\ ran = Checks) =>
        /\ HasErrors(result) <=> result.Errors # <<>>
        /\ ErrorCount(result) = Len(result.Errors)
        /\ err # NoError <=> result.Errors # <<>>
        /\ err # NoError =>
              err = Error("validation failed with %d error(s)", Len(result.Errors))

\* C21 witness: runValidate has returned nil for a result with two Warnings and no
\* Error.
PassesWithWarningsWitness ==
    /\ pc = "exited" /\ ran = Checks
    /\ Len(result.Warnings) = 2 /\ result.Errors = <<>>
    /\ err = NoError

Recognized(c) ==
    /\ c.AdapterStyle \in {"primary-secondary", "driver-driven"}
    /\ c.CoreLogic \in {"services", "usecases"}

\* C23 as stated: a Validator given a configuration with an unrecognized naming
\* value runs no check and writes no entry with a defaulted naming.
UnrecognizedNamingRefused ==
    (config # NoConfig /\ ~Recognized(config)) => (ran = <<>> /\ result = EmptyResult)

\* the file is a test file or is no Go source file
TestOrNonSource(path) == path[Len(path)] \in {"user_test.go", "notes.md"}

\* C27: no Error and no Warning names a file whose name ends in _test.go or that is
\* not a .go file, whatever that file declares.
TestFilesExcluded ==
    /\ \A i \in 1..Len(result.Errors) :
          result.Errors[i].file # <<>> => ~TestOrNonSource(result.Errors[i].file)
    /\ \A i \in 1..Len(result.Warnings) :
          result.Warnings[i].file # <<>> => ~TestOrNonSource(result.Warnings[i].file)

\* C27 witness: a run has returned on a project whose domain directory holds a test
\* file and a file that is no Go source, both declaring a dependency on the database
\* adapter; the domain check reported its Success and there is no Error.
TestFilesExcludedWitness ==
    /\ pc = "done"
    /\ proj.files[domainDir \o <<"user_test.go">>] = GoSource(TRUE, <<databasePkg>>)
    /\ proj.files[domainDir \o <<"notes.md">>] = GoSource(TRUE, <<databasePkg>>)
    /\ Count(result.Successes, DomainSuccess) = 1
    /\ result.Errors = <<>>

-----------------------------------------------------------------------------
(* hexago templates export-all [--global] [--force] *)

\* the template names the program knows, in the byte order sort.Strings gives them
Lexical == <<entName, customName, svcName>>

\* sort.Strings(names)
SortStrings(S) == LET in(n) == n \in S IN SelectSeq(Lexical, in)

\* the names export-all walks: every listed name has a path in each override directory
ExportNames == ListResult

\* the loop of export-all without the check for an existing destination
ExportAllNoSkip(f, ds, names, global, force) ==
    LET step[i \in 0..Len(names)] ==
            IF i = 0
            THEN [fs |-> f, dirs |-> ds, exported |-> 0, skipped |-> 0]
            ELSE LET e == ExportEffect(step[i - 1].fs, step[i - 1].dirs, names[i], global)
                 IN IF e.kind # "ok"
                    THEN [step[i - 1] EXCEPT !.fs = e.fs, !.dirs = e.dirs]
                    ELSE [fs |-> e.fs, dirs |-> e.dirs,
                          exported |-> step[i - 1].exported + 1,
                          skipped |-> step[i - 1].skipped]
    IN step[Len(names)]

\* for _, name := range names: skip an existing destination unless --force, else
\* Export; a failed Export is printed and the loop goes on
ExportAll(f, ds, names, global, force) ==
    LET step[i \in 0..Len(names)] ==
            IF i = 0
            THEN [fs |-> f, dirs |-> ds, exported |-> 0, skipped |-> 0]
            ELSE IF ~force /\ FileExists(step[i - 1].fs, Destination(global), names[i])
                 THEN [step[i - 1] EXCEPT !.skipped = @ + 1]
                 ELSE LET e == ExportEffect(step[i - 1].fs, step[i - 1].dirs,
                                            names[i], global)
                      IN IF e.kind # "ok"
                         THEN [step[i - 1] EXCEPT !.fs = e.fs, !.dirs = e.dirs]
                         ELSE [fs |-> e.fs, dirs |-> e.dirs,
                               exported |-> step[i - 1].exported + 1,
                               skipped |-> step[i - 1].skipped]
    IN step[Len(names)]

\* hexago templates export-all: a loader of its own, the sorted List, the loop, and
\* the two counts printed at the end; the command returns nil whatever happened
templatesExportAllCmd(global, force) ==
    LET r == ExportAll(fs, dirs, SortStrings(ListResult), global, force)
    IN /\ fs' = r.fs
       /\ dirs' = r.dirs
       /\ last' = Call(IF force THEN "templates export-all --force"
                                ELSE "templates export-all",
                       NoName, global, NoData, "ok",
                       <<r.exported, r.skipped>>, NoSource, FALSE)
       /\ UNCHANGED <<cache, first, edits, vvars>>

InitExportAll ==
    /\ fs = [s \in FsSources |-> [n \in ExportNames |-> NoEntry]]
    /\ dirs = [s \in FsSources |-> {}]
    /\ cache = [n \in Names |-> NoTemplate]
    /\ first = [n \in Names |-> NoRender]
    /\ edits = 0
    /\ last = [op |-> "NewTemplateLoader", name |-> NoName, global |-> FALSE, data |-> NoData,
               kind |-> "ok", out |-> <<>>, src |-> NoSource, hit |-> FALSE, again |-> FALSE]
    /\ proj = Scaffold(defaultConfig)
    /\ config = NoConfig
    /\ pc = "idle"
    /\ result = EmptyResult
    /\ ran = <<>>
    /\ changes = 0
    /\ err = NoError
    /\ prev = [set |-> FALSE, result |-> EmptyResult]

NextExportAll ==
    \/ \E global \in BOOLEAN, force \in BOOLEAN : templatesExportAllCmd(global, force)
    \/ \E s \in FsSources, n \in ExportNames, c \in EditContents : EditFile(s, n, c)
    \/ \E s \in FsSources, n \in ExportNames : MakeDir(s, n)

SpecExportAll == InitExportAll /\ [][NextExportAll]_vars

\* the last step was a run of export-all
ExportedAll == last.op \in {"templates export-all", "templates export-all --force"}

\* the listed names that have an entry at the tier export-all writes to
AtDestination(f, global) ==
    {n \in ListResult : HasEntry(f, Destination(global), n)}

\* the listed names Export can copy to the tier: the first entry of the chain is a
\* regular file and no directory occupies the destination path
Exportable(f, global) ==
    {n \in ListResult : /\ HasFile(f, Lowest(Entries(f, n)), n)
                        /\ f[Destination(global)][n].kind # "dir"}

\* what Export leaves at the destination of a name it copies
Copied(f, n) == File(ContentOf(f, Lowest(Entries(f, n)), n))

\* C24 as stated: export-all without --force leaves every listed name that has an
\* entry at the target tier as it was and counts it as skipped, changing only
\* destinations that had no entry; with --force every listed name has a file at
\* its destination afterwards
ExportAllAsStated ==
    [][ExportedAll' =>
        LET d == Destination(last'.global) IN
        IF last'.op = "templates export-all --force"
        THEN \A n \in ListResult : fs'[d][n].kind = "file"
        ELSE /\ \A n \in AtDestination(fs, last'.global) : fs'[d][n] = fs[d][n]
             /\ last'.out[2] = Cardinality(AtDestination(fs, last'.global))
             /\ \A n \in ListResult :
                    fs'[d][n] # fs[d][n] => n \notin AtDestination(fs, last'.global)]_vars

\* C24: export-all without --force leaves every listed name that has an entry at
\* the target tier as it was and counts it as skipped; every other listed name,
\* and with --force every listed name, gets the bytes of the first entry of its
\* chain written to its destination and is counted as exported, unless that entry
\* or the destination is a directory, in which case the destination stays as it was
\* and the name is counted in neither total; nothing else in the tiers changes
ExportAllSkipsOrCopies ==
    [][ExportedAll' =>
        LET g == last'.global
            d == Destination(g)
            kept == IF last'.op = "templates export-all --force"
                    THEN {} ELSE AtDestination(fs, g)
            done == Exportable(fs, g) \ kept
        IN /\ \A n \in ListResult :
                 fs'[d][n] = IF n \in done THEN Copied(fs, n) ELSE fs[d][n]
           /\ \A s \in FsSources \ {d} : fs'[s] = fs[s]
           /\ last'.out = <<Cardinality(done), Cardinality(kept)>>
           /\ last'.kind = "ok"]_vars

\* export-all without --force skipped one listed name and exported the other
ExportAllWitness ==
    /\ last.op = "templates export-all"
    /\ last.out = <<1, 1>>

-----------------------------------------------------------------------------
(* TemplateLoader.Validate(path), behind hexago templates validate <path> *)

\* Validate that also executes the parsed template against a data context
ValidatePathExecuting(f, s, name) ==
    LET r == ReadFile(f, s, name)
        p == Parse(r.content)
    IN IF r.err THEN "io"
       ELSE IF p.err THEN "syntax"
       ELSE IF Execute(p.tree, userData).err THEN "exec"
       ELSE "ok"

\* os.ReadFile(path), then template.New(...).Funcs(funcMap).Parse(content):
\* "failed to read template", "template syntax error", or nil
ValidatePath(f, s, name) ==
    LET r == ReadFile(f, s, name) IN
    IF r.err THEN "io"
    ELSE IF Parse(r.content).err THEN "syntax"
    ELSE "ok"

\* l.Validate(<src.Path>/<name>): the path is read as given; l.sources and
\* l.cache are not used
ValidateSyntax(s, name) ==
    /\ last' = Call("Validate", name, FALSE, NoData, ValidatePath(fs, s, name),
                    <<>>, s, FALSE)
    /\ UNCHANGED <<fs, dirs, cache, first, edits, vvars>>

NextSyntax ==
    \/ NewTemplateLoader
    \/ \E n \in Names, d \in DataContexts : Render(n, d)
    \/ \E s \in FsSources, n \in Names : ValidateSyntax(s, n)
    \/ \E s \in FsSources, n \in Names, c \in EditContents : EditFile(s, n, c)
    \/ \E s \in FsSources, n \in Names : MakeDir(s, n)

SpecSyntax == Init /\ [][NextSyntax]_vars

\* every directive of the content is terminated
WellFormed(content) == \A i \in 1..Len(content) : content[i] # Unterminated

\* the content refers to a field that the data context does not have
RefersBeyond(content, data) ==
    \E i \in 1..Len(content) : content[i] \in Fields /\ content[i] \notin DOMAIN data

\* C25: Validate of a concrete path returns nil exactly when a regular file is at
\* that path and its content is well formed, whatever the other sources hold and
\* whatever fields it refers to; an unterminated directive gives a syntax error, a
\* missing file or a directory a read error; the cache and the files stay as they were
ValidateIsPureSyntaxCheck ==
    [][last'.op = "Validate" =>
        LET e == fs[last'.src][last'.name] IN
        /\ last'.kind = "ok" <=> (e.kind = "file" /\ WellFormed(e.content))
        /\ last'.kind = "syntax" <=> (e.kind = "file" /\ ~WellFormed(e.content))
        /\ last'.kind = "io" <=> e.kind # "file"
        /\ cache' = cache
        /\ fs' = fs
        /\ dirs' = dirs]_vars

\* Validate accepted a file that refers to a field a data context lacks, at a path
\* that is not where the loader's cached template of that name came from
ValidateWitness ==
    /\ last.op = "Validate"
    /\ last.kind = "ok"
    /\ RefersBeyond(fs[last.src][last.name].content, userData)
    /\ cache[last.name].parsed
    /\ cache[last.name].tree # fs[last.src][last.name].content

\* C26: Which(name) answers from the sources alone: it reports the entry of the
\* lowest priority rank among the sources that have one for name, or not found
\* when none has, whether or not the loader has name in its cache; the call leaves
\* the cache, the files and the directories as they were
WhichIgnoresCache ==
    [][last'.op = "Which" =>
        LET n == last'.name IN
        /\ IF Entries(fs, n) = {}
           THEN last'.kind = "notfound" /\ last'.src = NoSource
           ELSE last'.kind = "ok" /\ last'.src = Lowest(Entries(fs, n))
        /\ cache' = cache
        /\ fs' = fs
        /\ dirs' = dirs]_vars

\* Which reported an override file although the loader has the name cached with
\* other content than that file's
WhichIgnoresCacheWitness ==
    /\ last.op = "Which"
    /\ last.kind = "ok"
    /\ last.src # "embedded"
    /\ HasFile(fs, last.src, last.name)
    /\ cache[last.name].parsed
    /\ cache[last.name].tree # ContentOf(fs, last.src, last.name)

\* what executing the parsed content against a data context gives
Output(content, data) ==
    IF Execute(Parse(content).tree, data).err
    THEN [kind |-> "exec", bytes |-> <<>>]
    ELSE [kind |-> "ok", bytes |-> Execute(Parse(content).tree, data).bytes]

\* C28: a call of Export or Reset leaves the cache as it was; so when Reset deletes
\* the override file whose content the loader has cached for the name, a Render of
\* the name by the same loader still gives the output of the deleted content
ExportResetKeepCache ==
    [][last'.op \in {"Export", "Reset"} =>
        LET n == last'.name
            e == fs[Destination(last'.global)][n]
        IN /\ cache' = cache
           /\ (/\ last'.op = "Reset"
               /\ last'.kind = "ok"
               /\ e.kind = "file"
               /\ cache[n] = Template(e.content))
              => \A d \in DataContexts :
                    RenderResult(Load(fs', cache', n), d) = Output(e.content, d)]_vars

\* Reset has deleted an override whose content the loader still has cached, and no
\* source holds a file with that content any more
ExportResetKeepCacheWitness ==
    /\ last.op = "Reset"
    /\ last.kind = "ok"
    /\ cache[last.name].parsed
    /\ cache[last.name].tree \in EditContents
    /\ \A s \in Holders(fs, last.name) :
          ContentOf(fs, s, last.name) # cache[last.name].tree

\* C29: for a loader that has not cached the name, the source Which reports for it
\* is the source whose content Render parses and whose bytes Export copies to the
\* tier, also when an entry at an override path is a directory
WhichRenderExportAgree ==
    [][LET n == last'.name
           w == WhichResult(fs, n)
       IN /\ (last'.op = "Render" /\ ~last'.hit)
                => /\ last'.kind = "notfound" <=> w.kind = "notfound"
                   /\ w.kind = "ok" => last'.src = w.label
          /\ (last'.op = "Export" /\ w.kind = "ok")
                => /\ last'.kind = "ok"
                   /\ fs'[Destination(last'.global)][n] = File(ContentOf(fs, w.label, n))]_vars

\* C30: a Render that fails with a syntax error leaves the name out of the cache,
\* and a Render puts a name into the cache only with the well-formed content of
\* the winning source; so on a loader whose first Render of the name failed with a
\* syntax error, a Render of the name made while it is still uncached resolves
\* again and returns what the currently winning source gives
FailedParseNotCached ==
    [][last'.op = "Render" =>
        LET n == last'.name IN
        /\ last'.kind = "syntax" => (~cache'[n].parsed /\ cache' = cache)
        /\ cache'[n] # cache[n]
              => /\ Holders(fs, n) # {}
                 /\ WellFormed(ContentOf(fs, Lowest(Holders(fs, n)), n))
                 /\ cache'[n] = Template(ContentOf(fs, Lowest(Holders(fs, n)), n))
        /\ (first[n].kind = "syntax" /\ ~cache[n].parsed)
              => Returned' = FreshRender(fs, n, last'.data)]_vars

\* the loader's first Render of the name failed with a syntax error, and a later
\* Render of the name by the same loader succeeded from a source
FailedParseNotCachedWitness ==
    /\ last.op = "Render"
    /\ first[last.name].kind = "syntax"
    /\ last.kind = "ok"
    /\ ~last.hit
    /\ last.src # NoSource

====
